---- MODULE Spec2Model ----
(***************************************************************************)
(* FmtLayer (src/src/fmt_layer.rs): a tracing Layer that renders every     *)
(* event as one line                                                        *)
(*     [<elapsed> <LEVEL>](<span chain>)(<module>): <message>               *)
(* on stderr (ERROR, WARN) or stdout (INFO, DEBUG, TRACE).                  *)
(*                                                                          *)
(* Text is modelled as a sequence of one-character strings, so that the    *)
(* separators, quotes and newlines of a line can be counted.  An Instant   *)
(* is a number of nanoseconds on the monotonic clock.                      *)
(***************************************************************************)
EXTENDS Integers, Sequences, FiniteSets, TLC

VARIABLES
    start,      \* FmtLayer.start, the Instant captured by FmtLayer::new
    clock,      \* the last Instant the monotonic clock has returned
    stdout,     \* what has been written to io::stdout(), one entry per write
    stderr,     \* what has been written to io::stderr(), one entry per write
    ncalls,     \* number of on_event invocations entered so far
    last,       \* the most recent on_event invocation that finished
    th          \* per thread: the on_event invocation in progress, if any

vars == <<start, clock, stdout, stderr, ncalls, last, th>>

-----------------------------------------------------------------------------
(* Bounds of the model *)

MaxCalls == 2       \* on_event invocations in one behaviour
NumThreads == 2     \* host threads that deliver events concurrently

Threads == 1..NumThreads

-----------------------------------------------------------------------------
(* Option<&str> *)

None == <<>>
Some(x) == <<x>>

unwrap_or_wrong_literal(opt, default) ==
    IF opt = None THEN <<"n", "o", "_", "m", "o", "d", "u", "l", "e">> ELSE opt[1]

unwrap_or(opt, default) == IF opt = None THEN default ELSE opt[1]

NoModule == <<"n", "o", " ", "m", "o", "d", "u", "l", "e">>

-----------------------------------------------------------------------------
(* Text helpers of the formatting machinery *)

Digits == <<"0", "1", "2", "3", "4", "5", "6", "7", "8", "9">>

RECURSIVE NatToChars(_)
NatToChars(n) ==
    IF n < 10 THEN <<Digits[n + 1]>>
    ELSE NatToChars(n \div 10) \o <<Digits[(n % 10) + 1]>>

Pow10(k) == CASE k = 0 -> 1 [] k = 1 -> 10 [] k = 2 -> 100 [] k = 3 -> 1000
              [] k = 4 -> 10000 [] k = 5 -> 100000 [] OTHER -> 1000000

\* the fractional part of {:.6}: exactly six digits, zero padded
SixDigits(n) == [i \in 1..6 |-> Digits[((n \div Pow10(6 - i)) % 10) + 1]]

\* Duration::subsec_micros rendered alone: the whole seconds are lost
FormatSubsec6(nanos) ==
    LET micros == (nanos + 500) \div 1000
    IN  <<"0", ".">> \o SixDigits(micros % 1000000)

\* "{:.6}" of Duration::as_secs_f64(): seconds rounded to the microsecond
FormatSecs6(nanos) ==
    LET micros == (nanos + 500) \div 1000
    IN  NatToChars(micros \div 1000000) \o <<".">> \o SixDigits(micros % 1000000)

\* now - self.start
Elapsed(now, st) == now - st

\* <str as Debug>: the escapes of the characters that need one
EscapeChar(c) ==
    CASE c = "\n" -> <<"\\", "n">>
      [] c = "\"" -> <<"\\", "\"">>
      [] c = "\\" -> <<"\\", "\\">>
      [] OTHER    -> <<c>>

RECURSIVE EscapeDebug(_)
EscapeDebug(s) ==
    IF s = <<>> THEN <<>> ELSE EscapeChar(Head(s)) \o EscapeDebug(Tail(s))

\* format!("{:?}", value) for the kinds of value an event field carries:
\*   str   a &str, quoted and escaped
\*   args  a fmt::Arguments (the message of the event macros), whose Debug
\*         is its Display: the text as it is
\*   u64   an unsigned integer, in decimal
DebugFmt(value) ==
    CASE value.kind = "str"  -> <<"\"">> \o EscapeDebug(value.chars) \o <<"\"">>
      [] value.kind = "args" -> value.chars
      [] OTHER               -> NatToChars(value.num)

-----------------------------------------------------------------------------
(* FmtEventVisitor *)

\* a visitor kept from the previous invocation instead of a fresh one
FmtEventVisitor_stale == [message |-> last.call.segs.message]

FmtEventVisitor_default == [message |-> <<>>]

record_debug_any_field(visitor, field, value) == [message |-> DebugFmt(value)]

record_debug(visitor, field, value) ==
    IF field = "message" THEN [message |-> DebugFmt(value)] ELSE visitor

\* event.record(&mut visitor): every field of the event, in order
RECURSIVE event_record(_, _)
event_record(visitor, fields) ==
    IF fields = <<>> THEN visitor
    ELSE event_record(record_debug(visitor, Head(fields).name, Head(fields).value),
                      Tail(fields))

-----------------------------------------------------------------------------
(* StandardOutput *)

StandardOutput_new_warn_to_out(level) ==
    IF level = "ERROR" THEN "Err" ELSE "Out"

StandardOutput_new(level) ==
    IF level \in {"ERROR", "WARN"} THEN "Err" ELSE "Out"

-----------------------------------------------------------------------------
(* on_event: the segments of the line *)

Separator == <<" ", "|", " ">>

\* for span in ctx.scope() { if !span_string.is_empty() { push " | " } push name }
RECURSIVE span_loop(_, _)
span_loop(span_string, scope) ==
    IF scope = <<>> THEN span_string
    ELSE span_loop((IF span_string # <<>> THEN span_string \o Separator
                                         ELSE span_string) \o Head(scope),
                   Tail(scope))

LevelLabel_warning(level) ==
    CASE level = "ERROR" -> <<"E", "R", "R", "O", "R">>
      [] level = "WARN"  -> <<"W", "A", "R", "N", "I", "N", "G">>
      [] level = "INFO"  -> <<"I", "N", "F", "O">>
      [] level = "DEBUG" -> <<"D", "E", "B", "U", "G">>
      [] OTHER           -> <<"T", "R", "A", "C", "E">>

LevelLabel(level) ==
    CASE level = "ERROR" -> <<"E", "R", "R", "O", "R">>
      [] level = "WARN"  -> <<"W", "A", "R", "N">>
      [] level = "INFO"  -> <<"I", "N", "F", "O">>
      [] level = "DEBUG" -> <<"D", "E", "B", "U", "G">>
      [] OTHER           -> <<"T", "R", "A", "C", "E">>

\* everything on_event computes before it writes
Segments(event, scope, now, st) ==
    [time    |-> FormatSecs6(Elapsed(now, st)),
     level   |-> LevelLabel(event.level),
     span    |-> span_loop(<<>>, scope),
     module  |-> unwrap_or(event.module_path, NoModule),
     message |-> event_record(FmtEventVisitor_default, event.fields).message]

\* writeln!(output_ref, "[{:.6} {}]({})({}): {}", ...)
FormatLine(segs) ==
    <<"[">> \o segs.time \o <<" ">> \o segs.level \o <<"]", "(">> \o segs.span
        \o <<")", "(">> \o segs.module \o <<")", ":", " ">> \o segs.message
        \o <<"\n">>

UnwrapIgnoringErr(io) == "returned"

\* .unwrap() of the io::Result of the write
Unwrap(io) == IF io.ok THEN "returned" ELSE "panicked"

ResetStart(st, now) == now

\* on_event takes &self: it leaves FmtLayer.start as it is
KeepStart(st, now) == st

-----------------------------------------------------------------------------
(* The host: events, span scopes, the clock, the standard streams *)

Levels == {"ERROR", "WARN", "INFO", "DEBUG", "TRACE"}

Str(chars) == [kind |-> "str", chars |-> chars, num |-> 0]
Args(chars) == [kind |-> "args", chars |-> chars, num |-> 0]
U64(n) == [kind |-> "u64", chars |-> <<>>, num |-> n]

Field(name, value) == [name |-> name, value |-> value]

Event(level, module_path, fields) ==
    [level |-> level, module_path |-> module_path, fields |-> fields]

Dispatch(event, scope) == [event |-> event, scope |-> scope]

App == <<"a", "p", "p">>

\* the events the host delivers, each with the span scope it fires in
\* (outermost span first)
Dispatches ==
    { Dispatch(Event("ERROR", None, <<Field("message", Str(<<"b", "o", "\"">>))>>),
               <<(<<"r">>), (<<"h">>)>>),
      Dispatch(Event("WARN", Some(App), <<Field("count", U64(42))>>),
               <<(<<>>), (<<"h">>)>>),
      Dispatch(Event("INFO", Some(App), <<Field("message", Args(<<"u", "p">>))>>),
               <<>>),
      Dispatch(Event("INFO", None,
                     <<Field("message", Args(<<"a", "\n", "b">>)),
                       Field("count", U64(7))>>),
               <<(<<"r">>)>>),
      Dispatch(Event("DEBUG", None, <<>>), <<(<<"r">>), (<<>>)>>),
      Dispatch(Event("TRACE", Some(App),
                     <<Field("user", Str(<<"x">>)),
                       Field("message", Str(<<"o", "k">>))>>),
               <<>>) }

\* the Instants the clock is sampled at
Instants == {250, 850, 1450, 1000000250}

\* Instant::now(): the clock is monotonic
Instant_now == {n \in Instants : n >= clock}

\* the io::Result of the write, and how much of the line reached the stream
\* when it failed
IoResults ==
    {[ok |-> TRUE, written |-> 0]} \cup {[ok |-> FALSE, written |-> n] : n \in {0, 1}}

Prefix(s, n) == SubSeq(s, 1, IF n < Len(s) THEN n ELSE Len(s))

\* the stream after the write of `line` that ended with `io`
WriteLn(stream, line, io, call) ==
    IF io.ok THEN Append(stream, [text |-> line, complete |-> TRUE, call |-> call])
    ELSE IF io.written = 0 THEN stream
    ELSE Append(stream, [text |-> Prefix(line, io.written), complete |-> FALSE,
                         call |-> call])

\* what is known of one invocation: its inputs and the segments it computed
Call(id, event, scope, now, segs) ==
    [id |-> id, event |-> event, scope |-> scope, now |-> now, segs |-> segs]

NoCall == Call(0, Event("INFO", None, <<>>), <<>>, 0,
               [time |-> <<>>, level |-> <<>>, span |-> <<>>, module |-> <<>>,
                message |-> <<>>])

Idle == [pc |-> "idle", call |-> NoCall]

-----------------------------------------------------------------------------
(* FmtLayer::new *)

Init ==
    /\ start \in {250}
    /\ clock = start
    /\ stdout = <<>>
    /\ stderr = <<>>
    /\ ncalls = 0
    /\ last = [call |-> NoCall, io |-> [ok |-> TRUE, written |-> 0],
               outcome |-> "none"]
    /\ th = [t \in Threads |-> Idle]

-----------------------------------------------------------------------------
(* on_event, delivered by one thread at a time: the whole handler *)

on_event(d, now, io) ==
    /\ ncalls < MaxCalls
    /\ now \in Instant_now
    /\ clock' = now
    /\ ncalls' = ncalls + 1
    /\ LET segs == Segments(d.event, d.scope, now, start)
           call == Call(ncalls + 1, d.event, d.scope, now, segs)
           output == StandardOutput_new(d.event.level)
       IN  /\ stdout' = IF output = "Out"
                        THEN WriteLn(stdout, FormatLine(segs), io, call)
                        ELSE stdout
           /\ stderr' = IF output = "Err"
                        THEN WriteLn(stderr, FormatLine(segs), io, call)
                        ELSE stderr
           /\ last' = [call |-> call, io |-> io, outcome |-> Unwrap(io)]
    /\ start' = KeepStart(start, now)
    /\ UNCHANGED th

Deliver == \E d \in Dispatches, now \in Instants, io \in IoResults : on_event(d, now, io)

Next == Deliver

Spec == Init /\ [][Next]_vars

-----------------------------------------------------------------------------
(* on_event, delivered by several threads at once.  One invocation is three *)
(* steps: it reads the clock, it computes the segments from its own event   *)
(* and span scope, and it writes the line (Stdout and Stderr lock the       *)
(* stream for the whole of one write_fmt).                                  *)

\* the events delivered concurrently
ConcDispatches == {d \in Dispatches : d.event.level \in {"ERROR", "INFO"}}

\* let now = Instant::now();
Enter(t, d, now) ==
    /\ th[t].pc = "idle"
    /\ ncalls < MaxCalls
    /\ now \in Instant_now
    /\ clock' = now
    /\ ncalls' = ncalls + 1
    /\ th' = [th EXCEPT ![t] = [pc |-> "entered",
                                call |-> Call(ncalls + 1, d.event, d.scope, now,
                                              NoCall.segs)]]
    /\ UNCHANGED <<start, stdout, stderr, last>>

\* time, visitor, span_string, level, module
Format(t) ==
    /\ th[t].pc = "entered"
    /\ LET c == th[t].call
       IN  th' = [th EXCEPT ![t] = [pc |-> "formatted",
                                   call |-> Call(c.id, c.event, c.scope, c.now,
                                                 Segments(c.event, c.scope, c.now,
                                                          start))]]
    /\ UNCHANGED <<start, clock, stdout, stderr, ncalls, last>>

\* writeln!(...).unwrap()
Write(t, io) ==
    /\ th[t].pc = "formatted"
    /\ LET c == th[t].call
           output == StandardOutput_new(c.event.level)
       IN  /\ stdout' = IF output = "Out"
                        THEN WriteLn(stdout, FormatLine(c.segs), io, c)
                        ELSE stdout
           /\ stderr' = IF output = "Err"
                        THEN WriteLn(stderr, FormatLine(c.segs), io, c)
                        ELSE stderr
           /\ last' = [call |-> c, io |-> io, outcome |-> Unwrap(io)]
           /\ start' = KeepStart(start, c.now)
    /\ th' = [th EXCEPT ![t] = Idle]
    /\ UNCHANGED <<clock, ncalls>>

ThreadEnters == \E t \in Threads, d \in ConcDispatches, now \in Instants : Enter(t, d, now)
ThreadFormats == \E t \in Threads : Format(t)
ThreadWrites == \E t \in Threads, io \in IoResults : Write(t, io)

NextConc == ThreadEnters \/ ThreadFormats \/ ThreadWrites

SpecConc == Init /\ [][NextConc]_vars

-----------------------------------------------------------------------------
(* Vocabulary of the properties *)

Entries == {stdout[i] : i \in DOMAIN stdout} \cup {stderr[i] : i \in DOMAIN stderr}

Lines == {e \in Entries : e.complete}

HasMessage(event) == \E i \in DOMAIN event.fields : event.fields[i].name = "message"

MessageValue(event) ==
    event.fields[CHOOSE i \in DOMAIN event.fields : event.fields[i].name = "message"].value

EndsWith(s, suffix) ==
    /\ Len(s) >= Len(suffix)
    /\ SubSeq(s, Len(s) - Len(suffix) + 1, Len(s)) = suffix

Occurrences(sub, s) ==
    Cardinality({i \in 1..(Len(s) - Len(sub) + 1) : SubSeq(s, i, i + Len(sub) - 1) = sub})

Contains(s, sub) == Occurrences(sub, s) > 0

RECURSIVE JoinNames(_)
JoinNames(names) ==
    IF names = <<>> THEN <<>>
    ELSE IF Len(names) = 1 THEN names[1]
    ELSE names[1] \o <<" ", "|", " ">> \o JoinNames(Tail(names))

\* the number the rendered elapsed time stands for, in microseconds
RECURSIVE TimeValue(_)
TimeValue(chars) ==
    IF chars = <<>> THEN 0
    ELSE LET c == chars[Len(chars)]
             rest == TimeValue(SubSeq(chars, 1, Len(chars) - 1))
         IN  IF c = "." THEN rest
             ELSE 10 * rest + ((CHOOSE d \in 1..10 : Digits[d] = c) - 1)

-----------------------------------------------------------------------------
(* C1: a line of an ERROR or WARN event is on stderr and never on stdout, a *)
(* line of an INFO, DEBUG or TRACE event is on stdout and never on stderr;  *)
(* the line of the invocation that just returned is the last one of its     *)
(* channel.                                                                 *)
C1_RoutingBySeverity ==
    /\ \A i \in DOMAIN stdout : stdout[i].call.event.level \in {"INFO", "DEBUG", "TRACE"}
    /\ \A i \in DOMAIN stderr : stderr[i].call.event.level \in {"ERROR", "WARN"}
    /\ last.outcome = "returned" =>
         LET channel == IF last.call.event.level \in {"ERROR", "WARN"}
                        THEN stderr ELSE stdout
         IN  /\ channel # <<>>
             /\ channel[Len(channel)].call = last.call
             /\ channel[Len(channel)].complete

C1_Witness ==
    /\ \E i \in DOMAIN stderr : stderr[i].complete /\ stderr[i].call.event.level = "WARN"
    /\ \E i \in DOMAIN stdout : stdout[i].complete /\ stdout[i].call.event.level = "DEBUG"

(* C2: when the event has a field named message, the message segment is the *)
(* debug-formatted value of that field, whatever the other fields and their *)
(* order, and the line ends with it.                                        *)
C2_MessageIsDebugOfField ==
    \A e \in Entries :
        HasMessage(e.call.event) =>
            /\ e.call.segs.message = DebugFmt(MessageValue(e.call.event))
            /\ e.complete =>
                 EndsWith(e.text, <<":", " ">> \o DebugFmt(MessageValue(e.call.event))
                                      \o <<"\n">>)

C2_Witness ==
    /\ \E e \in Lines :
         /\ Len(e.call.event.fields) = 2
         /\ e.call.event.fields[1].name = "message"
         /\ e.call.segs.message = <<"a", "\n", "b">>
    /\ \E e \in Lines :
         /\ Len(e.call.event.fields) = 2
         /\ e.call.event.fields[2].name = "message"
         /\ e.call.segs.message = <<"\"", "o", "k", "\"">>

(* C3 as stated: a context stack of N >= 1 frames renders with exactly N-1  *)
(* occurrences of " | ", whatever the frame names (empty names included);   *)
(* an empty stack renders as the empty string.                              *)
C3_SeparatorCount ==
    \A e \in Lines :
        LET n == Len(e.call.scope)
        IN  /\ n >= 1 => Occurrences(<<" ", "|", " ">>, e.call.segs.span) = n - 1
            /\ n = 0 => e.call.segs.span = <<>>

(* C4 as stated: the span-chain segment is the frame names, outermost       *)
(* first, joined with " | "; it is empty when the stack is empty.           *)
C4_SpanChainIsJoin ==
    \A e \in Lines : e.call.segs.span = JoinNames(e.call.scope)

(* C5: over the events one FmtLayer is given one after the other, the       *)
(* rendered elapsed time never decreases, and the elapsed time is never     *)
(* negative.                                                                *)
C5_ElapsedMonotonic ==
    /\ \A e \in Entries : Elapsed(e.call.now, start) >= 0
    /\ \A e1, e2 \in Entries :
         e1.call.id < e2.call.id =>
             TimeValue(e1.call.segs.time) <= TimeValue(e2.call.segs.time)

C5_Witness ==
    \E e1, e2 \in Lines :
        /\ e1.call.id < e2.call.id
        /\ e1.call.segs.time = <<"0", ".", "0", "0", "0", "0", "0", "1">>
        /\ e2.call.segs.time = <<"1", ".", "0", "0", "0", "0", "0", "0">>

Finished == last'.call.id # last.call.id

CompleteOn(stream) == {i \in DOMAIN stream : stream[i].complete}

\* the stream is as it was, or has gained the cut-off beginning of one line
AtMostAFragmentMore(before, after) ==
    \/ after = before
    \/ /\ Len(after) = Len(before) + 1
       /\ SubSeq(after, 1, Len(before)) = before
       /\ ~after[Len(after)].complete

(* C6: an invocation whose write fails panics: it does not return, no       *)
(* complete line appears on its channel (no retry), and the other channel   *)
(* is left as it was.                                                       *)
C6_WriteFailureIsFatal ==
    [][(Finished /\ ~last'.io.ok) =>
          /\ last'.outcome = "panicked"
          /\ IF last'.call.event.level \in {"ERROR", "WARN"}
             THEN stdout' = stdout /\ AtMostAFragmentMore(stderr, stderr')
             ELSE stderr' = stderr /\ AtMostAFragmentMore(stdout, stdout')]_vars

C6_Witness ==
    /\ last.outcome = "panicked"
    /\ ~last.io.ok
    /\ last.call.event.level = "ERROR"
    /\ stderr # <<>>
    /\ ~stderr[Len(stderr)].complete
    /\ stderr[Len(stderr)].call = last.call
    /\ \E i \in DOMAIN stdout : stdout[i].complete

NewlineCount(s) == Cardinality({i \in DOMAIN s : s[i] = "\n"})

ExpectedLabel(level) ==
    CASE level = "ERROR" -> <<"E", "R", "R", "O", "R">>
      [] level = "WARN"  -> <<"W", "A", "R", "N">>
      [] level = "INFO"  -> <<"I", "N", "F", "O">>
      [] level = "DEBUG" -> <<"D", "E", "B", "U", "G">>
      [] level = "TRACE" -> <<"T", "R", "A", "C", "E">>

\* each successful write is one record of the layout, newline-terminated,
\* and no invocation has written twice or to both channels
OneRecordPerCall ==
    /\ \A e \in Lines :
         /\ e.text = <<"[">> \o e.call.segs.time \o <<" ">>
                        \o ExpectedLabel(e.call.event.level) \o <<"]", "(">>
                        \o e.call.segs.span \o <<")", "(">> \o e.call.segs.module
                        \o <<")", ":", " ">> \o e.call.segs.message \o <<"\n">>
         /\ Len(e.call.segs.time) >= 8
         /\ e.call.segs.time[Len(e.call.segs.time) - 6] = "."
    /\ \A i, j \in DOMAIN stdout : stdout[i].call.id = stdout[j].call.id => i = j
    /\ \A i, j \in DOMAIN stderr : stderr[i].call.id = stderr[j].call.id => i = j
    /\ \A i \in DOMAIN stdout : \A j \in DOMAIN stderr : stdout[i].call.id # stderr[j].call.id
    /\ last.outcome = "returned" => \E e \in Lines : e.call = last.call

(* C7 as stated: every successful invocation writes exactly one line of the *)
(* layout, so every record holds one newline, its last character, and after *)
(* k successful invocations the channels hold k lines.                      *)
C7_OneLinePerCall ==
    /\ OneRecordPerCall
    /\ \A e \in Lines : NewlineCount(e.text) = 1

(* C7 as amended: every successful invocation writes exactly one            *)
(* newline-terminated record of the layout, to exactly one channel; the     *)
(* record is one line more than the newlines its segments hold.             *)
C7_OneRecordPerCall ==
    /\ OneRecordPerCall
    /\ \A e \in Lines :
         NewlineCount(e.text) = 1 + NewlineCount(e.call.segs.message)
                                  + NewlineCount(e.call.segs.span)
                                  + NewlineCount(e.call.segs.module)

C7_Witness ==
    /\ \E i \in DOMAIN stdout :
         /\ stdout[i].complete
         /\ NewlineCount(stdout[i].text) = 2
    /\ \E i \in DOMAIN stderr :
         /\ stderr[i].complete
         /\ stderr[i].call.event.level = "WARN"
         /\ NewlineCount(stderr[i].text) = 1

(* C8: when the event has no field named message, the message segment is    *)
(* empty, whatever was dispatched before it.                                *)
C8_NoMessageIsEmpty ==
    \A e \in Entries :
        ~HasMessage(e.call.event) =>
            /\ e.call.segs.message = <<>>
            /\ e.complete => EndsWith(e.text, <<")", ":", " ", "\n">>)

C8_Witness ==
    \E e1, e2 \in Lines :
        /\ e1.call.id < e2.call.id
        /\ HasMessage(e1.call.event)
        /\ ~HasMessage(e2.call.event)
        /\ e2.call.event.fields # <<>>

(* C9: the module segment is the event's module path when it has one and    *)
(* the literal "no module" when it has none, and an event without a module  *)
(* path makes no invocation fail.                                           *)
C9_ModuleOrNoModule ==
    /\ \A e \in Entries :
         LET expected == IF e.call.event.module_path = <<>>
                         THEN <<"n", "o", " ", "m", "o", "d", "u", "l", "e">>
                         ELSE e.call.event.module_path[1]
         IN  /\ e.call.segs.module = expected
             /\ e.complete => Contains(e.text, <<")", "(">> \o expected \o <<")", ":", " ">>)
    /\ (last.call.event.module_path = <<>> /\ last.io.ok /\ last.call.id > 0)
          => last.outcome = "returned"

C9_Witness ==
    /\ last.outcome = "returned"
    /\ last.call.event.module_path = <<>>
    /\ \E e \in Lines : e.call = last.call /\ e.call.segs.module[3] = " "
    /\ \E e \in Lines : e.call.segs.module = <<"a", "p", "p">>

\* the line of an invocation that runs alone
AloneLine(call) == FormatLine(Segments(call.event, call.scope, call.now, start))

(* C10: however concurrent invocations interleave, start is never modified  *)
(* and the line of each invocation is the one it would write alone, from    *)
(* its own event, span scope and now.                                       *)
C10_InvocationsIndependent ==
    /\ [][start' = start]_vars
    /\ [](\A e \in Entries :
            /\ e.complete => e.text = AloneLine(e.call)
            /\ ~e.complete => e.text = Prefix(AloneLine(e.call), Len(e.text)))

C10_Witness ==
    \E t \in Threads, e \in Lines :
        /\ th[t].pc = "formatted"
        /\ th[t].call.id < e.call.id
        /\ th[t].call.now < e.call.now

====
